---- MODULE Spec2Model ----
(***************************************************************************)
(* The update dispatcher of tbot (src/src/event_loop.rs): the handler      *)
(* registry of EventLoop, the command parser and handle_update with its    *)
(* two message sub-routers.  Handlers are plain callbacks behind a mutex,  *)
(* called inline by the dispatching thread.                                *)
(***************************************************************************)
EXTENDS Integers, Sequences, FiniteSets, TLC

\* ---------------------------------------------------------------- bounds

\* The length of the text values given to the command parser.
MaxLen == 4

\* Configuration calls (registrations and username) made before listening.
MaxCalls == 2

\* ------------------------------------------------------------ vocabulary

\* Option<T>: None, or Some(x).
None == << >>

Some(x) == << x >>

\* The Handlers<_> fields of EventLoop that handle_update reads.
HandlerLists ==
    { "after_update_handlers", "animation_handlers", "audio_handlers",
      "before_update_handlers", "contact_handlers", "created_group_handlers",
      "data_callback_handlers", "deleted_chat_photo_handlers",
      "document_handlers", "edited_animation_handlers",
      "edited_audio_handlers", "edited_document_handlers",
      "edited_location_handlers", "edited_photo_handlers",
      "edited_text_handlers", "edited_video_handlers",
      "game_callback_handlers", "game_handlers", "left_member_handlers",
      "location_handlers", "migration_handlers", "new_chat_photo_handlers",
      "new_chat_title_handlers", "new_members_handlers", "photo_handlers",
      "pinned_message_handlers", "poll_handlers", "sticker_handlers",
      "text_handlers", "unhandled_handlers", "updated_poll_handlers",
      "venue_handlers", "video_handlers", "video_note_handlers",
      "voice_handlers" }

\* Command names and usernames are strings, kept as sequences of characters.
CommandNames == { <<"a">>, <<"A">> }

Usernames == { <<"b">> }

\* The threads that may call handle_update: the loop's own, and a second
\* caller that only the concurrent specification starts.
Threads == { 1, 2 }

VARIABLES
    phase,                    \* "configure" (&mut self) or "listen" (&self)
    calls,                    \* configuration calls made so far
    username,                 \* EventLoop::username
    handlers,                 \* the Handlers<_> fields, as their lengths
    command_handlers,         \* EventLoop::command_handlers
    edited_command_handlers,  \* EventLoop::edited_command_handlers
    held,                     \* the handlers whose mutex is locked
    pc,                       \* per thread: "off", "idle", "dispatch", "in_handler", "done"
    update,                   \* per thread: the update handle_update was given
    log,                      \* per thread: the handler calls and returns so far
    outcome,                  \* per thread: how handle_update ended
    poisoned,                 \* the handlers whose mutex is poisoned
    input,                    \* the Text given to the command parser
    answer                    \* what the parser functions made of it

config == <<username, handlers, command_handlers, edited_command_handlers>>

parser_vars == <<input, answer>>

vars == <<phase, calls, username, handlers, command_handlers,
          edited_command_handlers, held, pc, update, log, outcome, poisoned,
          input, answer>>

\* ---------------------------------------------------------- command parser

\* char::is_whitespace, on the characters the texts below are made of.
is_whitespace(c) == c \in { " ", "\t", "\n" }

\* Characters that take two bytes in UTF-8, written by name.
WideChars == { "e-acute" }

\* The UTF-8 length of a character: str indices count bytes.
len_utf8(c) == IF c \in WideChars THEN 2 ELSE 1

RECURSIVE skip_while_whitespace(_)
skip_while_whitespace(s) ==
    IF s # <<>> /\ is_whitespace(Head(s))
    THEN skip_while_whitespace(Tail(s))
    ELSE s

RECURSIVE take_while_not_whitespace(_)
take_while_not_whitespace(s) ==
    IF s = <<>> \/ is_whitespace(Head(s))
    THEN <<>>
    ELSE <<Head(s)>> \o take_while_not_whitespace(Tail(s))

\* str::split_whitespace().next(): the first run of non-whitespace
\* characters, None when there is none.
first_token(value) ==
    LET rest == skip_while_whitespace(value)
    IN  IF rest = <<>> THEN None ELSE Some(take_while_not_whitespace(rest))

RECURSIVE up_to_at(_)
up_to_at(s) ==
    IF s = <<>> \/ Head(s) = "@"
    THEN <<>>
    ELSE <<Head(s)>> \o up_to_at(Tail(s))

\* Iterator::skip(n) on a sequence.
skip(s, n) == IF n >= Len(s) THEN <<>> ELSE SubSeq(s, n + 1, Len(s))

\* A test that takes a command entity at offset 0 anywhere in the list.
is_command_anywhere(text) ==
    \E i \in 1..Len(text.entities) :
        /\ text.entities[i].kind = "BotCommand"
        /\ text.entities[i].offset = 0

is_command(text) ==
    /\ text.entities # <<>>
    /\ text.entities[1].kind = "BotCommand"
    /\ text.entities[1].offset = 0

\* parse_command: ok is FALSE where the code panics (unwrap on no token,
\* [1..] inside a character).
parse_command(text) ==
    LET token == first_token(text.value)
    IN  IF token = None \/ len_utf8(Head(token[1])) # 1
        THEN [ok |-> FALSE, command |-> <<>>, username |-> None]
        ELSE LET rest    == Tail(token[1])
                 command == up_to_at(rest)
                 after   == skip(rest, Len(command))
             IN  [ok       |-> TRUE,
                  command  |-> command,
                  username |-> IF after = <<>>
                               THEN None
                               ELSE Some(up_to_at(Tail(after)))]

\* trim_command as a build computes it: ok is FALSE where the code panics
\* (unwrap on no entity; the usize subtraction below zero when the build
\* checks overflow).  Without the checks the subtraction wraps: the offset is
\* then kept as the negative number it is congruent to modulo the width of
\* usize.
trim_command_built(text, overflow_checks) ==
    IF text.entities = <<>>
    THEN [ok |-> FALSE, text |-> text]
    ELSE
    LET command_entity == Head(text.entities)
        old_length == Len(text.value)
        value == skip_while_whitespace(skip(text.value, command_entity.length))
        new_length == Len(value)
        rest == Tail(text.entities)
    IN  IF /\ overflow_checks
           /\ \E i \in 1..Len(rest) : rest[i].offset < old_length - new_length
        THEN [ok |-> FALSE, text |-> text]
        ELSE [ok   |-> TRUE,
              text |-> [value    |-> value,
                        entities |-> [i \in 1..Len(rest) |->
                            [kind   |-> rest[i].kind,
                             length |-> rest[i].length,
                             offset |-> rest[i].offset
                                        - (old_length - new_length)]]]]

\* trim_command in a build with overflow checks (the development profile).
trim_command(text) == trim_command_built(text, TRUE)

\* ------------------------------------------------------------ event model

MessageEntity(kind, offset, length) ==
    [kind |-> kind, offset |-> offset, length |-> length]

\* The texts of the text messages dispatched below: "/a x", "/a@b x",
\* "/a@c", "/a@B", "x", and "x /a" whose command entity is not the first.
Texts ==
    { [value |-> <<"/", "a", " ", "x">>,
       entities |-> << MessageEntity("BotCommand", 0, 2),
                       MessageEntity("Bold", 3, 1) >>],
      [value |-> <<"/", "a", "@", "b", " ", "x">>,
       entities |-> << MessageEntity("BotCommand", 0, 4),
                       MessageEntity("Bold", 5, 1) >>],
      [value |-> <<"/", "a", "@", "c">>,
       entities |-> << MessageEntity("BotCommand", 0, 4) >>],
      [value |-> <<"/", "a", "@", "B">>,
       entities |-> << MessageEntity("BotCommand", 0, 4) >>],
      [value |-> <<"x">>, entities |-> << >>],
      [value |-> <<"x", " ", "/", "a">>,
       entities |-> << MessageEntity("Bold", 0, 1),
                       MessageEntity("BotCommand", 2, 2) >>] }

\* The MessageKind variants handle_message_update names.
NamedKinds ==
    { "Poll", "Photo", "Pinned", "Sticker", "Venue", "Video", "VideoNote",
      "Voice", "Audio", "Animation", "ChatPhotoDeleted", "Document", "Game",
      "LeftChatMember", "Location", "MigrateTo", "MigrateFrom",
      "NewChatPhoto", "NewChatTitle", "NewChatMembers", "Contact",
      "GroupCreated", "SupergroupCreated", "ChannelCreated" }

\* The variants its wildcard arms take.
OtherKinds == { "Invoice", "SuccessfulPayment", "PassportData" }

MessageKinds ==
    { [tag |-> "Text", text |-> t] : t \in Texts }
        \cup { [tag |-> k] : k \in NamedKinds \cup OtherKinds }

\* Message::new and Message::split.
Message_new(data, kind) == [data |-> data, kind |-> kind]

split(message) == <<message.data, message.kind>>

\* The envelope of a message: on an edited one edit_date is set, unless the
\* sender broke the contract.
MessageData(edit_date) == [id |-> 1, edit_date |-> edit_date]

CallbackQueries ==
    { [id |-> "q", from |-> "user", origin |-> o, chat_instance |-> "ci",
       kind |-> k] :
        o \in { [tag |-> "Inline", id |-> "im"],
                [tag |-> "Message",
                 message |-> Message_new(MessageData(None), [tag |-> "Sticker"])] },
        k \in { [tag |-> "Data", data |-> "d"],
                [tag |-> "Game", game |-> "g"] } }

\* The payloads tried on channel posts and on edited messages without an
\* edit_date, which reach the two sub-routers like the others.
FewKinds ==
    { [tag |-> "Text", text |-> t] : t \in Texts }
        \cup { [tag |-> k] : k \in { "Photo", "Sticker", "Poll", "MigrateTo",
                                      "SupergroupCreated", "Invoice" } }

\* types::Update values: the id and the UpdateKind.
UpdateKinds ==
    { [tag |-> "Message", message |-> Message_new(MessageData(None), k)] :
        k \in MessageKinds }
    \cup
    { [tag |-> "ChannelPost", message |-> Message_new(MessageData(None), k)] :
        k \in FewKinds }
    \cup
    { [tag |-> "EditedMessage",
       message |-> Message_new(MessageData(Some("t7")), k)] :
        k \in MessageKinds }
    \cup
    { [tag |-> "EditedChannelPost",
       message |-> Message_new(MessageData(Some("t7")), k)] :
        k \in FewKinds }
    \cup
    { [tag |-> u, message |-> Message_new(MessageData(None), k)] :
        u \in { "EditedMessage", "EditedChannelPost" }, k \in FewKinds }
    \cup { [tag |-> "Poll", poll |-> "p"] }
    \cup { [tag |-> "CallbackQuery", query |-> q] : q \in CallbackQueries }
    \cup { [tag |-> "Unknown"] }

Updates == { [id |-> 1, kind |-> k] : k \in UpdateKinds }

\* -------------------------------------------------------- handler registry

\* One registered handler: its place in a Handlers<_> vector (key is the
\* command name for the two maps, None otherwise).
Handler(list, key, index) == [list |-> list, key |-> key, index |-> index]

\* A dispatcher that walked a vector from its end would call the handlers as
\* below; the ordering properties tell the two apart.
for_each_reversed(list, key, n, context) ==
    [i \in 1..n |-> [h |-> Handler(list, key, n + 1 - i), arg |-> context]]

\* for handler in handlers { handler(context) }: the calls, in vector order.
for_each(list, key, n, context) ==
    [i \in 1..n |-> [h |-> Handler(list, key, i), arg |-> context]]

\* Vec::push on a vector kept as its length.
push(n) == n + 1

\* The handler! macro's will_handle_* and run_*_handlers.
will_handle(list) == handlers[list] > 0

run_handlers(list, context) == for_each(list, None, handlers[list], context)

will_handle_command(command) == command \in DOMAIN command_handlers

run_command_handlers(command, context) ==
    IF command \in DOMAIN command_handlers
    THEN for_each("command_handlers", Some(command),
                  command_handlers[command], context)
    ELSE << >>

will_handle_edited_command(command) ==
    command \in DOMAIN edited_command_handlers

run_edited_command_handlers(command, context) ==
    IF command \in DOMAIN edited_command_handlers
    THEN for_each("edited_command_handlers", Some(command),
                  edited_command_handlers[command], context)
    ELSE << >>

will_handle_unhandled == handlers["unhandled_handlers"] # 0

\* A run of the unhandled handlers that stops after the first one.
run_unhandled_handlers_first(update_kind) ==
    for_each("unhandled_handlers", None,
             IF handlers["unhandled_handlers"] > 0 THEN 1 ELSE 0,
             [ctx |-> "Unhandled", update |-> update_kind])

run_unhandled_handlers(update_kind) ==
    for_each("unhandled_handlers", None, handlers["unhandled_handlers"],
             [ctx |-> "Unhandled", update |-> update_kind])

\* Two gates the code could be mistaken for: one that lets every explicit
\* username through while none is configured, and one that compares
\* usernames without regard to case.
is_for_this_bot_when_unset(explicit) ==
    IF explicit # None
    THEN username = None \/ username[1] = explicit[1]
    ELSE TRUE

is_for_this_bot_caseless(explicit) ==
    LET to_lowercase(c) == IF c = "B" THEN "b" ELSE c
        lowered(name) == [i \in 1..Len(name) |-> to_lowercase(name[i])]
    IN  IF explicit # None
        THEN username # None /\ lowered(username[1]) = lowered(explicit[1])
        ELSE TRUE

is_for_this_bot(explicit) ==
    IF explicit # None
    THEN username # None /\ username[1] = explicit[1]
    ELSE TRUE

\* --------------------------------------------------------------- dispatch

\* How a call ends: it returns after the calls it made, or it panics after
\* them.
Returned(invocations) == [calls |-> invocations, outcome |-> "returned"]

Panicked(invocations) == [calls |-> invocations, outcome |-> "panicked"]

\* The contexts::*::new constructors: what a handler is given.
Context(name, data, payload) ==
    [ctx |-> name, data |-> data, payload |-> payload]

UpdateKind_Message(message) == [tag |-> "Message", message |-> message]

UpdateKind_EditedMessage(message) ==
    [tag |-> "EditedMessage", message |-> message]

\* An arm without the fallback branch.
arm_without_fallback(list, context, unhandled_update) ==
    IF will_handle(list)
    THEN Returned(run_handlers(list, context))
    ELSE Returned(<< >>)

\* An arm whose second test is an `if` of its own, not an `else if`: the
\* unhandled handlers run after the category's.
arm_then_unhandled(list, context, unhandled_update) ==
    Returned((IF will_handle(list)
              THEN run_handlers(list, context)
              ELSE << >>)
             \o (IF will_handle_unhandled
                 THEN run_unhandled_handlers(unhandled_update)
                 ELSE << >>))

\* The shape of the arms of both sub-routers: the category's handlers if
\* there are any, else the unhandled handlers if there are any, else nothing.
arm(list, context, unhandled_update) ==
    IF will_handle(list)
    THEN Returned(run_handlers(list, context))
    ELSE IF will_handle_unhandled
         THEN Returned(run_unhandled_handlers(unhandled_update))
         ELSE Returned(<< >>)

\* The list each MessageKind arm of handle_message_update names.
message_handlers(tag) ==
    CASE tag = "Poll" -> "poll_handlers"
      [] tag = "Photo" -> "photo_handlers"
      [] tag = "Pinned" -> "pinned_message_handlers"
      [] tag = "Sticker" -> "sticker_handlers"
      [] tag = "Venue" -> "venue_handlers"
      [] tag = "Video" -> "video_handlers"
      [] tag = "VideoNote" -> "video_note_handlers"
      [] tag = "Voice" -> "voice_handlers"
      [] tag = "Audio" -> "audio_handlers"
      [] tag = "Animation" -> "animation_handlers"
      [] tag = "ChatPhotoDeleted" -> "deleted_chat_photo_handlers"
      [] tag = "Document" -> "document_handlers"
      [] tag = "Game" -> "game_handlers"
      [] tag = "LeftChatMember" -> "left_member_handlers"
      [] tag = "Location" -> "location_handlers"
      [] tag = "MigrateFrom" -> "migration_handlers"
      [] tag = "NewChatPhoto" -> "new_chat_photo_handlers"
      [] tag = "NewChatTitle" -> "new_chat_title_handlers"
      [] tag = "NewChatMembers" -> "new_members_handlers"
      [] tag = "Contact" -> "contact_handlers"
      [] tag = "GroupCreated" -> "created_group_handlers"

\* A command arm that trims the text before it looks for handlers, so that
\* the unhandled handlers get the trimmed text.
command_arm_trimmed(data, text) ==
    LET parsed == parse_command(text)
        trimmed == trim_command(text)
    IN  IF ~parsed.ok \/ ~trimmed.ok
        THEN Panicked(<< >>)
        ELSE IF ~is_for_this_bot(parsed.username)
        THEN Returned(<< >>)
        ELSE IF will_handle_command(parsed.command)
        THEN Returned(run_command_handlers(parsed.command,
                Context("Text", data, trimmed.text)))
        ELSE IF will_handle_unhandled
        THEN Returned(run_unhandled_handlers(UpdateKind_Message(
                Message_new(data, [tag |-> "Text", text |-> trimmed.text]))))
        ELSE Returned(<< >>)

\* A command arm that gives the command's handlers the text as it arrived.
command_arm_untrimmed(data, text) ==
    LET parsed == parse_command(text)
    IN  IF ~parsed.ok
        THEN Panicked(<< >>)
        ELSE IF ~is_for_this_bot(parsed.username)
        THEN Returned(<< >>)
        ELSE IF will_handle_command(parsed.command)
        THEN Returned(run_command_handlers(parsed.command,
                Context("Text", data, text)))
        ELSE IF will_handle_unhandled
        THEN Returned(run_unhandled_handlers(UpdateKind_Message(
                Message_new(data, [tag |-> "Text", text |-> text]))))
        ELSE Returned(<< >>)

\* A command arm that hands a command nobody registered to the text
\* handlers, as an ordinary text.
command_arm_as_text(data, text) ==
    LET parsed == parse_command(text)
    IN  IF ~parsed.ok
        THEN Panicked(<< >>)
        ELSE IF ~is_for_this_bot(parsed.username)
        THEN Returned(<< >>)
        ELSE IF will_handle_command(parsed.command)
        THEN LET trimmed == trim_command(text)
             IN  IF ~trimmed.ok
                 THEN Panicked(<< >>)
                 ELSE Returned(run_command_handlers(parsed.command,
                        Context("Text", data, trimmed.text)))
        ELSE arm("text_handlers", Context("Text", data, text),
                 UpdateKind_Message(
                    Message_new(data, [tag |-> "Text", text |-> text])))

\* The command arm of handle_message_update: the text is trimmed only on
\* the way to the command's handlers.
command_arm(data, text) ==
    LET parsed == parse_command(text)
    IN  IF ~parsed.ok
        THEN Panicked(<< >>)
        ELSE IF ~is_for_this_bot(parsed.username)
        THEN Returned(<< >>)
        ELSE IF will_handle_command(parsed.command)
        THEN LET trimmed == trim_command(text)
             IN  IF ~trimmed.ok
                 THEN Panicked(<< >>)
                 ELSE Returned(run_command_handlers(parsed.command,
                        Context("Text", data, trimmed.text)))
        ELSE IF will_handle_unhandled
        THEN Returned(run_unhandled_handlers(UpdateKind_Message(
                Message_new(data, [tag |-> "Text", text |-> text]))))
        ELSE Returned(<< >>)

\* MigrateTo treated like the payloads of the wildcard arm.
migrate_to_arm_unhandled(unhandled_update) ==
    IF will_handle_unhandled
    THEN Returned(run_unhandled_handlers(unhandled_update))
    ELSE Returned(<< >>)

\* MessageKind::MigrateTo(..) => (), ignored on purpose.
migrate_to_arm(unhandled_update) == Returned(<< >>)

\* SupergroupCreated and ChannelCreated treated like the payloads of the
\* wildcard arm.
created_arm_unhandled(unhandled_update) ==
    IF will_handle_unhandled
    THEN Returned(run_unhandled_handlers(unhandled_update))
    ELSE Returned(<< >>)

\* MessageKind::SupergroupCreated | MessageKind::ChannelCreated =>
\* unreachable!(..): the dispatch panics, no handler is run.
created_arm(unhandled_update) == Panicked(<< >>)

handle_message_update(message) ==
    LET data == split(message)[1]
        kind == split(message)[2]
        unhandled_update == UpdateKind_Message(Message_new(data, kind))
    IN  CASE kind.tag = "Text" ->
               IF is_command(kind.text)
               THEN command_arm(data, kind.text)
               ELSE arm("text_handlers", Context("Text", data, kind.text),
                        unhandled_update)
          [] kind.tag = "MigrateTo" -> migrate_to_arm(unhandled_update)
          [] kind.tag \in { "SupergroupCreated", "ChannelCreated" } ->
               created_arm(unhandled_update)
          [] kind.tag \in NamedKinds \ { "MigrateTo", "SupergroupCreated",
                                         "ChannelCreated" } ->
               arm(message_handlers(kind.tag),
                   Context(kind.tag, data, kind), unhandled_update)
          [] OTHER ->
               IF will_handle_unhandled
               THEN Returned(run_unhandled_handlers(unhandled_update))
               ELSE Returned(<< >>)

\* The list each arm of handle_message_edit_update names.
edited_message_handlers(tag) ==
    CASE tag = "Animation" -> "edited_animation_handlers"
      [] tag = "Audio" -> "edited_audio_handlers"
      [] tag = "Document" -> "edited_document_handlers"
      [] tag = "Location" -> "edited_location_handlers"
      [] tag = "Photo" -> "edited_photo_handlers"
      [] tag = "Video" -> "edited_video_handlers"

EditedContext(name, data, edit_date, payload) ==
    [ctx |-> name, data |-> data, edit_date |-> edit_date,
     payload |-> payload]

\* An edited command arm that looks the command up in command_handlers.
edited_command_arm_plain(data, edit_date, text) ==
    LET parsed == parse_command(text)
    IN  IF ~parsed.ok
        THEN Panicked(<< >>)
        ELSE IF ~is_for_this_bot(parsed.username)
        THEN Returned(<< >>)
        ELSE IF will_handle_command(parsed.command)
        THEN LET trimmed == trim_command(text)
             IN  IF ~trimmed.ok
                 THEN Panicked(<< >>)
                 ELSE Returned(run_command_handlers(parsed.command,
                        EditedContext("Text", data, edit_date, trimmed.text)))
        ELSE IF will_handle_unhandled
        THEN Returned(run_unhandled_handlers(UpdateKind_EditedMessage(
                Message_new(data, [tag |-> "Text", text |-> text]))))
        ELSE Returned(<< >>)

\* The command arm of handle_message_edit_update.
edited_command_arm(data, edit_date, text) ==
    LET parsed == parse_command(text)
    IN  IF ~parsed.ok
        THEN Panicked(<< >>)
        ELSE IF ~is_for_this_bot(parsed.username)
        THEN Returned(<< >>)
        ELSE IF will_handle_edited_command(parsed.command)
        THEN LET trimmed == trim_command(text)
             IN  IF ~trimmed.ok
                 THEN Panicked(<< >>)
                 ELSE Returned(run_edited_command_handlers(parsed.command,
                        EditedContext("Text", data, edit_date, trimmed.text)))
        ELSE IF will_handle_unhandled
        THEN Returned(run_unhandled_handlers(UpdateKind_EditedMessage(
                Message_new(data, [tag |-> "Text", text |-> text]))))
        ELSE Returned(<< >>)

\* A missing edit_date treated like the payloads of the wildcard arm.
no_edit_date_unhandled(message) ==
    IF will_handle_unhandled
    THEN Returned(run_unhandled_handlers(UpdateKind_EditedMessage(message)))
    ELSE Returned(<< >>)

\* data.edit_date.expect(..) on None: the dispatch panics before the match
\* on the kind, no handler is run.
no_edit_date(message) == Panicked(<< >>)

handle_message_edit_update(message) ==
    LET data == split(message)[1]
        kind == split(message)[2]
    IN  IF data.edit_date = None
        THEN no_edit_date(message)
        ELSE
        LET edit_date == data.edit_date[1]
            as_message == UpdateKind_Message(Message_new(data, kind))
            as_edited == UpdateKind_EditedMessage(Message_new(data, kind))
        IN  CASE kind.tag \in { "Animation", "Audio", "Document", "Location",
                                "Photo", "Video" } ->
                   arm(edited_message_handlers(kind.tag),
                       EditedContext(kind.tag, data, edit_date, kind),
                       as_message)
              [] kind.tag = "Text" ->
                   IF is_command(kind.text)
                   THEN edited_command_arm(data, edit_date, kind.text)
                   ELSE arm("edited_text_handlers",
                            EditedContext("Text", data, edit_date, kind.text),
                            as_edited)
              [] kind.tag \in { "Poll", "NewChatMembers", "LeftChatMember",
                                "ChatPhotoDeleted", "NewChatPhoto",
                                "NewChatTitle", "GroupCreated",
                                "SupergroupCreated", "ChannelCreated",
                                "Pinned", "MigrateTo", "MigrateFrom" } ->
                   Panicked(<< >>)
              [] OTHER ->
                   IF will_handle_unhandled
                   THEN Returned(run_unhandled_handlers(as_edited))
                   ELSE Returned(<< >>)

\* contexts::Update::new.
UpdateContext(update_id) == [ctx |-> "Update", update_id |-> update_id]

\* A callback arm that takes the handlers of the other callback kind.
callback_query_arm_crossed(query) ==
    arm(IF query.kind.tag = "Data"
        THEN "game_callback_handlers"
        ELSE "data_callback_handlers",
        [ctx |-> "Callback", id |-> query.id, from |-> query.from,
         origin |-> query.origin, chat_instance |-> query.chat_instance],
        [tag |-> "CallbackQuery", query |-> query])

\* UpdateKind::CallbackQuery(query) => match query.kind: the moved-out kind
\* is put back into the query given to the unhandled handlers.
callback_query_arm(query) ==
    CASE query.kind.tag = "Data" ->
           arm("data_callback_handlers",
               [ctx |-> "DataCallback", id |-> query.id,
                from |-> query.from, origin |-> query.origin,
                chat_instance |-> query.chat_instance,
                data |-> query.kind.data],
               [tag |-> "CallbackQuery",
                query |-> [query EXCEPT !.kind =
                    [tag |-> "Data", data |-> query.kind.data]]])
      [] query.kind.tag = "Game" ->
           arm("game_callback_handlers",
               [ctx |-> "GameCallback", id |-> query.id,
                from |-> query.from, origin |-> query.origin,
                chat_instance |-> query.chat_instance,
                game |-> query.kind.game],
               [tag |-> "CallbackQuery",
                query |-> [query EXCEPT !.kind =
                    [tag |-> "Game", game |-> query.kind.game]]])

\* The match on update.kind in handle_update.
handle_update_kind(kind) ==
    CASE kind.tag \in { "Message", "ChannelPost" } ->
           handle_message_update(kind.message)
      [] kind.tag \in { "EditedMessage", "EditedChannelPost" } ->
           handle_message_edit_update(kind.message)
      [] kind.tag = "Poll" ->
           arm("updated_poll_handlers",
               [ctx |-> "UpdatedPoll", poll |-> kind.poll],
               [tag |-> "Poll", poll |-> kind.poll])
      [] kind.tag = "CallbackQuery" -> callback_query_arm(kind.query)
      [] kind.tag = "Unknown" ->
           Returned(run_unhandled_handlers(kind))

\* handle_update with the before-update handlers run after the match.
handle_update_before_last(u) ==
    LET update_context == UpdateContext(u.id)
        before == run_handlers("before_update_handlers", update_context)
        matched == handle_update_kind(u.kind)
        after == run_handlers("after_update_handlers", update_context)
    IN  IF matched.outcome = "panicked"
        THEN Panicked(matched.calls)
        ELSE Returned(matched.calls \o before \o after)

\* handle_update: what it calls, in order, and how it ends.  A panic in the
\* match unwinds past run_after_update_handlers.
handle_update(u) ==
    LET update_context == UpdateContext(u.id)
        before == run_handlers("before_update_handlers", update_context)
        matched == handle_update_kind(u.kind)
        after == run_handlers("after_update_handlers", update_context)
    IN  IF matched.outcome = "panicked"
        THEN Panicked(before \o matched.calls)
        ELSE Returned(before \o matched.calls \o after)

\* ---------------------------------------------------------- state machine

\* HashMap::new().
EmptyMap == [c \in {} |-> 0]

\* map.entry(command).or_insert_with(Vec::new).push(handler).
entry_push(map, command) ==
    [c \in DOMAIN map \cup { command } |->
        IF c = command
        THEN push(IF c \in DOMAIN map THEN map[c] ELSE 0)
        ELSE map[c]]

\* EventLoop::new.
Init ==
    /\ phase = "configure"
    /\ calls = 0
    /\ username = None
    /\ handlers = [l \in HandlerLists |-> 0]
    /\ command_handlers = EmptyMap
    /\ edited_command_handlers = EmptyMap
    /\ held = {}
    /\ pc = [t \in Threads |-> IF t = 1 THEN "idle" ELSE "off"]
    /\ update = [t \in Threads |-> None]
    /\ log = [t \in Threads |-> << >>]
    /\ outcome = [t \in Threads |-> "none"]
    /\ poisoned = {}
    /\ input = None
    /\ answer = None

dispatch_vars == <<held, pc, update, log, outcome, poisoned>>

Configuring == phase = "configure" /\ calls < MaxCalls

\* EventLoop::username.
SetUsername(name) ==
    /\ Configuring
    /\ username' = Some(name)
    /\ calls' = calls + 1
    /\ UNCHANGED <<phase, handlers, command_handlers,
                   edited_command_handlers, dispatch_vars, parser_vars>>

\* The registration method of a list: after_update, animation, ...,
\* unhandled, ..., voice.
Register(list) ==
    /\ Configuring
    /\ handlers' = [handlers EXCEPT ![list] = push(@)]
    /\ calls' = calls + 1
    /\ UNCHANGED <<phase, username, command_handlers,
                   edited_command_handlers, dispatch_vars, parser_vars>>

\* EventLoop::command.
Command(command) ==
    /\ Configuring
    /\ command_handlers' = entry_push(command_handlers, command)
    /\ calls' = calls + 1
    /\ UNCHANGED <<phase, username, handlers, edited_command_handlers,
                   dispatch_vars, parser_vars>>

\* EventLoop::edited_command.
EditedCommand(command) ==
    /\ Configuring
    /\ edited_command_handlers' =
         entry_push(edited_command_handlers, command)
    /\ calls' = calls + 1
    /\ UNCHANGED <<phase, username, handlers, command_handlers,
                   dispatch_vars, parser_vars>>

\* EventLoop::polling / EventLoop::webhook: the loop is given away, and
\* from then on only read.
Listen ==
    /\ phase = "configure"
    /\ phase' = "listen"
    /\ UNCHANGED <<calls, config, dispatch_vars, parser_vars>>

\* What the handle_update call of thread t does from entry to exit, and
\* how many of its calls it has made: the registry is only read while
\* listening.
Running(t) == handle_update(update[t][1])

Called(t) == Cardinality({ i \in DOMAIN log[t] : log[t][i].ev = "call" })

\* Thread t enters handle_update(u).
HandleUpdate(t, u) ==
    /\ phase = "listen"
    /\ pc[t] = "idle"
    /\ LET p == handle_update(u)
       IN  /\ pc' = [pc EXCEPT ![t] =
                       IF p.calls = << >> THEN "done" ELSE "dispatch"]
           /\ outcome' = [outcome EXCEPT ![t] =
                       IF p.calls = << >> THEN p.outcome ELSE "running"]
    /\ update' = [update EXCEPT ![t] = Some(u)]
    /\ log' = [log EXCEPT ![t] = << >>]
    /\ UNCHANGED <<phase, calls, config, poisoned, parser_vars, held>>

\* The concurrent lineage's call: the handler is launched on a task of its
\* own and the dispatcher goes on without waiting for it.
Call_spawned(t) ==
    /\ pc[t] = "dispatch"
    /\ LET p == Running(t)
           next == p.calls[Called(t) + 1]
           last == Called(t) + 1 = Len(p.calls)
       IN  /\ log' = [log EXCEPT ![t] =
                        Append(@, [ev |-> "call", h |-> next.h])]
           /\ pc' = [pc EXCEPT ![t] = IF last THEN "done" ELSE "dispatch"]
           /\ outcome' = [outcome EXCEPT ![t] =
                            IF last THEN p.outcome ELSE @]
    /\ UNCHANGED <<phase, calls, config, poisoned, parser_vars, held, update>>

\* A call of the handler that does not go through its mutex.
Call_unlocked(t) ==
    /\ pc[t] = "dispatch"
    /\ LET next == Running(t).calls[Called(t) + 1]
       IN  /\ next.h \notin poisoned
           /\ held' = held \cup { next.h }
           /\ log' = [log EXCEPT ![t] =
                        Append(@, [ev |-> "call", h |-> next.h])]
    /\ pc' = [pc EXCEPT ![t] = "in_handler"]
    /\ UNCHANGED <<phase, calls, config, poisoned, parser_vars, update, outcome>>

\* (&mut *handler.lock().unwrap())(context): the thread takes the handler's
\* mutex and is inside the handler until it returns.
Call(t) ==
    /\ pc[t] = "dispatch"
    /\ LET next == Running(t).calls[Called(t) + 1]
       IN  /\ next.h \notin held
           /\ next.h \notin poisoned
           /\ held' = held \cup { next.h }
           /\ log' = [log EXCEPT ![t] =
                        Append(@, [ev |-> "call", h |-> next.h])]
    /\ pc' = [pc EXCEPT ![t] = "in_handler"]
    /\ UNCHANGED <<phase, calls, config, poisoned, parser_vars, update, outcome>>

\* A return that leaks the guard: the handler's mutex stays locked.
Return_keeping(t) ==
    /\ pc[t] = "in_handler"
    /\ LET p == Running(t)
           this == p.calls[Called(t)]
           last == Called(t) = Len(p.calls)
       IN  /\ held' = held
           /\ log' = [log EXCEPT ![t] =
                        Append(@, [ev |-> "return", h |-> this.h])]
           /\ pc' = [pc EXCEPT ![t] = IF last THEN "done" ELSE "dispatch"]
           /\ outcome' = [outcome EXCEPT ![t] =
                            IF last THEN p.outcome ELSE @]
    /\ UNCHANGED <<phase, calls, config, poisoned, parser_vars, update>>

\* The handler returns and its guard is dropped; after the last one
\* handle_update ends as its match decided.
Return(t) ==
    /\ pc[t] = "in_handler"
    /\ LET p == Running(t)
           this == p.calls[Called(t)]
           last == Called(t) = Len(p.calls)
       IN  /\ held' = held \ { this.h }
           /\ log' = [log EXCEPT ![t] =
                        Append(@, [ev |-> "return", h |-> this.h])]
           /\ pc' = [pc EXCEPT ![t] = IF last THEN "done" ELSE "dispatch"]
           /\ outcome' = [outcome EXCEPT ![t] =
                            IF last THEN p.outcome ELSE @]
    /\ UNCHANGED <<phase, calls, config, poisoned, parser_vars, update>>

\* A dispatcher that took the after-update handlers out of the loop to run
\* them would leave that list empty behind.
Finish_taking(t) ==
    /\ pc[t] = "done"
    /\ pc' = [pc EXCEPT ![t] = "idle"]
    /\ update' = [update EXCEPT ![t] = None]
    /\ log' = [log EXCEPT ![t] = << >>]
    /\ outcome' = [outcome EXCEPT ![t] = "none"]
    /\ handlers' = [handlers EXCEPT !["after_update_handlers"] = 0]
    /\ UNCHANGED <<phase, calls, username, command_handlers,
                   edited_command_handlers, poisoned, parser_vars, held>>

\* handle_update is over (it returned, or it panicked and unwound): the
\* update and the contexts are dropped, and the thread takes the next one.
Finish(t) ==
    /\ pc[t] = "done"
    /\ pc' = [pc EXCEPT ![t] = "idle"]
    /\ update' = [update EXCEPT ![t] = None]
    /\ log' = [log EXCEPT ![t] = << >>]
    /\ outcome' = [outcome EXCEPT ![t] = "none"]
    /\ UNCHANGED <<phase, calls, config, poisoned, parser_vars, held>>

\* The handler panics: the unwinding drops its guard, which poisons the
\* mutex, and goes on through the for loop and handle_update.
Fail(t) ==
    /\ pc[t] = "in_handler"
    /\ LET this == Running(t).calls[Called(t)]
       IN  /\ held' = held \ { this.h }
           /\ poisoned' = poisoned \cup { this.h }
           /\ log' = [log EXCEPT ![t] =
                        Append(@, [ev |-> "panic", h |-> this.h])]
    /\ pc' = [pc EXCEPT ![t] = "done"]
    /\ outcome' = [outcome EXCEPT ![t] = "panicked"]
    /\ UNCHANGED <<phase, calls, config, parser_vars, update>>

\* handler.lock() on a poisoned mutex is an Err, and unwrap() panics.
LockPoisoned(t) ==
    /\ pc[t] = "dispatch"
    /\ LET next == Running(t).calls[Called(t) + 1]
       IN  /\ next.h \notin held
           /\ next.h \in poisoned
           /\ log' = [log EXCEPT ![t] =
                        Append(@, [ev |-> "poisoned", h |-> next.h])]
    /\ pc' = [pc EXCEPT ![t] = "done"]
    /\ outcome' = [outcome EXCEPT ![t] = "panicked"]
    /\ UNCHANGED <<phase, calls, config, poisoned, parser_vars, held, update>>

\* The lists the configurations explored register handlers in: the
\* update-level lists, unhandled, both text lists and a sample of the
\* category lists of each router.  Every other list stays empty, so its arm
\* is dispatched through its fallback branch.
ListsTried ==
    { "before_update_handlers", "after_update_handlers", "unhandled_handlers",
      "text_handlers", "edited_text_handlers", "photo_handlers",
      "edited_photo_handlers", "video_handlers", "sticker_handlers",
      "migration_handlers", "poll_handlers", "updated_poll_handlers",
      "data_callback_handlers", "game_callback_handlers" }

\* The configuration calls are made on &mut self, before the loop is given
\* to polling or webhook.
Configure ==
    \/ \E name \in Usernames : SetUsername(name)
    \/ \E list \in ListsTried : Register(list)
    \/ \E command \in CommandNames : Command(command)
    \/ \E command \in CommandNames : EditedCommand(command)

Next ==
    \/ Configuring /\ Configure
    \/ Listen
    \/ \E t \in Threads :
          pc[t] = "idle" /\ \E u \in Updates : HandleUpdate(t, u)
    \/ \E t \in Threads : Call(t)
    \/ \E t \in Threads : Return(t)
    \/ \E t \in Threads : Finish(t)

Spec == Init /\ [][Next]_vars

\* ------------------------------------------------- the parser on its own

\* The characters of the values tried: a slash, a letter, the at sign, a
\* space and a letter that takes two bytes.
Alphabet == { "/", "a", "@", " ", "e-acute" }

RECURSIVE ValuesOfLen(_)
ValuesOfLen(n) ==
    IF n = 0
    THEN { << >> }
    ELSE { <<c>> \o v : c \in Alphabet, v \in ValuesOfLen(n - 1) }

Values == UNION { ValuesOfLen(n) : n \in 0..MaxLen }

\* The entity lists tried with a value: none, a first entity that is a
\* command at offset 0 of any length, or a command elsewhere, or no command,
\* and after it possibly one more entity on any one character, or a command
\* at offset 0.
FirstEntities ==
    { MessageEntity("BotCommand", 0, n) : n \in 1..MaxLen }
        \cup { MessageEntity("BotCommand", 1, 1), MessageEntity("Bold", 0, 1) }

EntityLists ==
    { << >> } \cup { <<e>> : e \in FirstEntities }
        \cup { <<e, MessageEntity("Bold", o, 1)>> :
                 e \in FirstEntities, o \in 0..(MaxLen - 1) }
        \cup { <<e, MessageEntity("BotCommand", 0, 1)>> :
                 e \in FirstEntities }

\* Any Text may be handed to the three functions.
InitParser ==
    /\ phase = "parse"
    /\ calls = 0
    /\ username = None
    /\ handlers = [l \in HandlerLists |-> 0]
    /\ command_handlers = EmptyMap
    /\ edited_command_handlers = EmptyMap
    /\ held = {}
    /\ pc = [t \in Threads |-> "off"]
    /\ update = [t \in Threads |-> None]
    /\ log = [t \in Threads |-> << >>]
    /\ outcome = [t \in Threads |-> "none"]
    /\ poisoned = {}
    /\ input \in { Some([value |-> v, entities |-> e]) :
                     v \in Values, e \in EntityLists }
    /\ answer = None

\* is_command, parse_command and trim_command applied to the text, by a
\* build with or without overflow checks.
Parse ==
    /\ phase = "parse"
    /\ answer = None
    /\ \E overflow_checks \in BOOLEAN :
         answer' = Some([is_command |-> is_command(input[1]),
                         parsed |-> parse_command(input[1]),
                         trimmed |-> trim_command_built(input[1],
                                                        overflow_checks)])
    /\ UNCHANGED <<phase, calls, config, dispatch_vars, input>>

NextParser == Parse

SpecParser == InitParser /\ [][NextParser]_vars

\* The dispatcher with handlers that may panic.
NextFailing ==
    \/ Next
    \/ \E t \in Threads : Fail(t)
    \/ \E t \in Threads : LockPoisoned(t)

SpecFailing == Init /\ [][NextFailing]_vars

\* ------------------------------------------------------- fetch_username

\* What the getMe future resolves to: an error, or a User with or without
\* a username.
GetMeResults ==
    { [tag |-> "Err", error |-> "e"] }
        \cup { [tag |-> "Ok", me |-> [username |-> n]] :
                  n \in { None } \cup { Some(name) : name \in Usernames } }

\* A fetch_username that takes a missing username for an empty one.
FetchUsername_or_default(result) ==
    /\ Configuring
    /\ IF result.tag = "Ok"
       THEN /\ username' = IF result.me.username = None
                           THEN Some(<< >>)
                           ELSE Some(result.me.username[1])
            /\ phase' = phase
            /\ log' = [log EXCEPT ![1] =
                         Append(@, [ev |-> "fetch_username",
                                    get_me |-> result,
                                    ended |-> "returned"])]
       ELSE /\ username' = username
            /\ phase' = "panicked"
            /\ log' = [log EXCEPT ![1] =
                         Append(@, [ev |-> "fetch_username",
                                    get_me |-> result,
                                    ended |-> "panicked"])]
    /\ calls' = calls + 1
    /\ UNCHANGED <<handlers, command_handlers, edited_command_handlers,
                   held, pc, update, outcome, poisoned, parser_vars>>

\* EventLoop::fetch_username: it returns nothing; Ok(me) with a username
\* goes to self.username, me.username.expect(..) panics on None and the Err
\* arm is a panic!.
FetchUsername(result) ==
    /\ Configuring
    /\ IF result.tag = "Ok" /\ result.me.username # None
       THEN /\ username' = Some(result.me.username[1])
            /\ phase' = phase
            /\ log' = [log EXCEPT ![1] =
                         Append(@, [ev |-> "fetch_username",
                                    get_me |-> result,
                                    ended |-> "returned"])]
       ELSE /\ username' = username
            /\ phase' = "panicked"
            /\ log' = [log EXCEPT ![1] =
                         Append(@, [ev |-> "fetch_username",
                                    get_me |-> result,
                                    ended |-> "panicked"])]
    /\ calls' = calls + 1
    /\ UNCHANGED <<handlers, command_handlers, edited_command_handlers,
                   held, pc, update, outcome, poisoned, parser_vars>>

\* The configuration of a loop that may also fetch its username.
NextFetch ==
    \/ Configuring /\ Configure
    \/ \E result \in GetMeResults : FetchUsername(result)

SpecFetch == Init /\ [][NextFetch]_vars

\* ------------------------------------------------- concurrent callers

\* The lists and the command the loops shared between threads register
\* handlers in, and the updates the threads dispatch on them.
SharedLists == { "before_update_handlers", "photo_handlers" }

SharedCommands == { <<"a">> }

SharedUpdates ==
    { u \in Updates :
        \/ /\ u.kind.tag = "Message"
           /\ u.kind.message.kind.tag = "Photo"
        \/ /\ u.kind.tag = "EditedMessage"
           /\ u.kind.message.data.edit_date # None
           /\ u.kind.message.kind.tag = "Text"
           /\ u.kind.message.kind.text.value = <<"/", "a", " ", "x">> }

\* handle_update takes &self and the handlers are Send + Sync: two threads
\* are given the same loop, configured with one handler in each shared list
\* and at most one under each shared command, and already listening.
InitShared ==
    /\ phase = "listen"
    /\ \E registered \in { SharedLists }, commands \in SUBSET SharedCommands :
          /\ handlers = [l \in HandlerLists |->
                            IF l \in registered THEN push(0) ELSE 0]
          /\ edited_command_handlers = [c \in commands |-> push(0)]
          /\ calls = Cardinality(registered) + Cardinality(commands)
    /\ username = None
    /\ command_handlers = EmptyMap
    /\ held = {}
    /\ pc = [t \in Threads |-> "idle"]
    /\ update = [t \in Threads |-> None]
    /\ log = [t \in Threads |-> << >>]
    /\ outcome = [t \in Threads |-> "none"]
    /\ poisoned = {}
    /\ input = None
    /\ answer = None

NextShared ==
    \/ \E t \in Threads :
          pc[t] = "idle" /\ \E u \in SharedUpdates : HandleUpdate(t, u)
    \/ \E t \in Threads : Call(t)
    \/ \E t \in Threads : Return(t)
    \/ \E t \in Threads : Finish(t)

\* Every handler returns, and a thread blocked in lock() gets a mutex that
\* is released again and again.
FairShared ==
    \A t \in Threads : WF_vars(Return(t)) /\ SF_vars(Call(t))

SpecShared == InitShared /\ [][NextShared]_vars /\ FairShared

\* ------------------------------------------- CallbackQuery deserializer

\* The field names of types/callback_query.rs.
ID == "id"

FROM == "from"

MESSAGE == "message"

INLINE_MESSAGE_ID == "inline_message_id"

CHAT_INSTANCE == "chat_instance"

DATA == "data"

GAME_SHORT_NAME == "game_short_name"

\* The keys a map may bring, in the order of the constants; the last one
\* stands for any key visit_map does not know.
Keys ==
    << ID, FROM, MESSAGE, INLINE_MESSAGE_ID, CHAT_INSTANCE, DATA,
       GAME_SHORT_NAME, "other" >>

\* How many fields the maps given to the deserializer have at most.
MaxFields == 7

\* The value visit_map reads for the i-th field of the map.
next_value(fields, i) == << fields[i], i >>

\* What the while loop leaves in the variable of a key: the value of the
\* last field with that key, or None.
last_value(fields, key) ==
    LET at == { i \in DOMAIN fields : fields[i] = key }
    IN  IF at = {}
        THEN None
        ELSE Some(next_value(fields, CHOOSE i \in at : \A j \in at : j <= i))

Err(error) == [tag |-> "Err", error |-> error]

Ok(value) == [tag |-> "Ok", value |-> value]

\* A visit_map that looks at game_short_name before data.
visit_map_game_first(fields, bad) ==
    LET id == last_value(fields, ID)
        from == last_value(fields, FROM)
        message == last_value(fields, MESSAGE)
        inline_message_id == last_value(fields, INLINE_MESSAGE_ID)
        chat_instance == last_value(fields, CHAT_INSTANCE)
        data == last_value(fields, DATA)
        game_short_name == last_value(fields, GAME_SHORT_NAME)
    IN  IF bad # 0
        THEN Err("invalid value")
        ELSE IF message = None /\ inline_message_id = None
        THEN Err("neither message nor inline_message_id")
        ELSE IF data = None /\ game_short_name = None
        THEN Err("neither callback_data nor game_short_name")
        ELSE IF id = None
        THEN Err("missing field id")
        ELSE IF from = None
        THEN Err("missing field from")
        ELSE IF chat_instance = None
        THEN Err("missing field chat_instance")
        ELSE Ok([id |-> id[1], from |-> from[1],
                 origin |-> IF message # None
                            THEN [tag |-> "Message", message |-> message[1]]
                            ELSE [tag |-> "Inline",
                                  id |-> inline_message_id[1]],
                 chat_instance |-> chat_instance[1],
                 kind |-> IF game_short_name # None
                          THEN [tag |-> "Game", game |-> game_short_name[1]]
                          ELSE [tag |-> "Data", data |-> data[1]]])

\* CallbackQueryVisitor::visit_map on a map with the given keys; bad is the
\* place of the field whose value does not deserialize (0: none), where
\* map.next_value()? returns the error.
visit_map(fields, bad) ==
    LET id == last_value(fields, ID)
        from == last_value(fields, FROM)
        message == last_value(fields, MESSAGE)
        inline_message_id == last_value(fields, INLINE_MESSAGE_ID)
        chat_instance == last_value(fields, CHAT_INSTANCE)
        data == last_value(fields, DATA)
        game_short_name == last_value(fields, GAME_SHORT_NAME)
    IN  IF bad # 0
        THEN Err("invalid value")
        ELSE IF message = None /\ inline_message_id = None
        THEN Err("neither message nor inline_message_id")
        ELSE IF data = None /\ game_short_name = None
        THEN Err("neither callback_data nor game_short_name")
        ELSE IF id = None
        THEN Err("missing field id")
        ELSE IF from = None
        THEN Err("missing field from")
        ELSE IF chat_instance = None
        THEN Err("missing field chat_instance")
        ELSE Ok([id |-> id[1], from |-> from[1],
                 origin |-> IF message # None
                            THEN [tag |-> "Message", message |-> message[1]]
                            ELSE [tag |-> "Inline",
                                  id |-> inline_message_id[1]],
                 chat_instance |-> chat_instance[1],
                 kind |-> IF data # None
                          THEN [tag |-> "Data", data |-> data[1]]
                          ELSE [tag |-> "Game", game |-> game_short_name[1]]])

\* The place of a key in Keys.
KeyIndex(key) == CHOOSE k \in 1..Len(Keys) : Keys[k] = key

\* The maps tried: up to MaxFields fields, a key possibly more than once,
\* listed in the order of Keys (no variable of visit_map depends on the
\* order of two different keys).
RECURSIVE FieldsOfLen(_)
FieldsOfLen(n) ==
    IF n = 0
    THEN { << >> }
    ELSE { g \in { Append(f, Keys[k]) :
                     f \in FieldsOfLen(n - 1), k \in 1..Len(Keys) } :
             n = 1 \/ KeyIndex(g[n - 1]) <= KeyIndex(g[n]) }

Maps ==
    { [fields |-> f, bad |-> b] :
        f \in UNION { FieldsOfLen(n) : n \in 0..MaxFields },
        b \in 0..MaxFields }

InitVisitor ==
    /\ phase = "deserialize"
    /\ calls = 0
    /\ username = None
    /\ handlers = [l \in HandlerLists |-> 0]
    /\ command_handlers = EmptyMap
    /\ edited_command_handlers = EmptyMap
    /\ held = {}
    /\ pc = [t \in Threads |-> "off"]
    /\ update = [t \in Threads |-> None]
    /\ log = [t \in Threads |-> << >>]
    /\ outcome = [t \in Threads |-> "none"]
    /\ poisoned = {}
    /\ input \in { Some(m) : m \in { x \in Maps : x.bad <= Len(x.fields) } }
    /\ answer = None

\* CallbackQuery::deserialize: the map goes through visit_map.
Deserialize ==
    /\ phase = "deserialize"
    /\ answer = None
    /\ answer' = Some(visit_map(input[1].fields, input[1].bad))
    /\ UNCHANGED <<phase, calls, config, dispatch_vars, input>>

NextVisitor == Deserialize

SpecVisitor == InitVisitor /\ [][NextVisitor]_vars

\* ------------------------------------------------------------- properties

BeforeUpdate == "before_update_handlers"

AfterUpdate == "after_update_handlers"

UnhandledList == "unhandled_handlers"

\* The handlers registered in a list, and every handler registered.
RegisteredIn(list) == { Handler(list, None, i) : i \in 1..handlers[list] }

RegisteredUnder(list, map) ==
    UNION { { Handler(list, Some(c), i) : i \in 1..map[c] } : c \in DOMAIN map }

AllRegistered ==
    UNION { RegisteredIn(l) : l \in HandlerLists }
        \cup RegisteredUnder("command_handlers", command_handlers)
        \cup RegisteredUnder("edited_command_handlers", edited_command_handlers)

\* Thread t has an update in hand, and the kind of that update.
InHand(t) == update[t] # None

Arrived(t) == update[t][1].kind

\* The positions of the calls in thread t's log, how often h was called, and
\* whether h returned before position i.
Calls(t) == { i \in DOMAIN log[t] : log[t][i].ev = "call" }

Times(t, h) == Cardinality({ i \in Calls(t) : log[t][i].h = h })

ReturnedBefore(t, h, i) ==
    \E j \in 1..(i - 1) : log[t][j] = [ev |-> "return", h |-> h]

\* What the handler called at position i of the log was given.
Received(t, i) ==
    Running(t).calls[Cardinality({ j \in Calls(t) : j <= i })].arg

OnlyUpdateLevelCalls(t) ==
    \A i \in Calls(t) : log[t][i].h.list \in { BeforeUpdate, AfterUpdate }

\* The update carries a message, and the payload of that message.
MessageTags == { "Message", "ChannelPost" }

EditedTags == { "EditedMessage", "EditedChannelPost" }

CarriesMessage(kind) == kind.tag \in MessageTags \cup EditedTags

Payload(kind) == kind.message.kind

CommandText(kind) ==
    /\ CarriesMessage(kind)
    /\ Payload(kind).tag = "Text"
    /\ is_command(Payload(kind).text)

\* A command that names, after its @, a username that is not the configured
\* one, or any username while none is configured.
ForAnotherBot(kind) ==
    /\ CommandText(kind)
    /\ LET explicit == parse_command(Payload(kind).text).username
       IN  /\ explicit # None
           /\ username = None \/ username[1] # explicit[1]

\* C1: for every update, discarded ones, commands for another bot and
\* protocol anomalies included, once handle_update is over each registered
\* after-update handler has been called exactly once, and only after every
\* category, command or unhandled handler called for the update returned.
C1_AfterUpdateOnEveryPath ==
    \A t \in Threads : pc[t] = "done" =>
        \A h \in RegisteredIn(AfterUpdate) :
            /\ Times(t, h) = 1
            /\ \A i \in Calls(t) : log[t][i].h = h =>
                 \A j \in Calls(t) :
                    log[t][j].h.list \notin { BeforeUpdate, AfterUpdate } =>
                        j < i /\ ReturnedBefore(t, log[t][j].h, i)

\* C2: for every update, each registered before-update handler is called
\* exactly once, in registration order, and all of them have returned before
\* any category, command or unhandled handler is called for the update.
C2_BeforeUpdateFirst ==
    \A t \in Threads : InHand(t) =>
        LET first == { i \in Calls(t) : log[t][i].h.list = BeforeUpdate }
        IN  /\ \A i \in first :
                 log[t][i].h = Handler(BeforeUpdate, None,
                                  Cardinality({ j \in first : j <= i }))
            /\ \A i \in Calls(t) \ first :
                 \A h \in RegisteredIn(BeforeUpdate) : ReturnedBefore(t, h, i)
            /\ pc[t] = "done" =>
                 \A h \in RegisteredIn(BeforeUpdate) : Times(t, h) = 1

\* handle_update is over for an update that had a before-update handler and
\* a handler of another list to call.
C2_Witness ==
    \E t \in Threads :
        /\ pc[t] = "done"
        /\ handlers[BeforeUpdate] >= 1
        /\ \E i \in Calls(t) : log[t][i].h.list # BeforeUpdate

\* C3: a command with an explicit @username that differs from the configured
\* one (or with none configured), on a Message, ChannelPost, EditedMessage or
\* EditedChannelPost update, gets no command, edited-command, text,
\* edited-text or unhandled handler called, whatever is registered.
C3_CommandForAnotherBotDropped ==
    \A t \in Threads : InHand(t) /\ ForAnotherBot(Arrived(t)) =>
        \A i \in Calls(t) :
            log[t][i].h.list \notin { "command_handlers",
                                      "edited_command_handlers",
                                      "text_handlers", "edited_text_handlers",
                                      UnhandledList }

\* Such a command was dispatched to the end while a handler it could have
\* reached was registered.
C3_Witness ==
    \E t \in Threads :
        /\ pc[t] = "done"
        /\ ForAnotherBot(Arrived(t))
        /\ \/ will_handle_unhandled
           \/ parse_command(Payload(Arrived(t)).text).command
                \in DOMAIN command_handlers \cup DOMAIN edited_command_handlers

\* The usernames a command may name after its @.
ExplicitUsernames ==
    { None } \cup { Some(n) : n \in { <<"b">>, <<"B">>, <<"c">> } }

\* Equality of two strings character by character, case included.
SameString(a, b) == Len(a) = Len(b) /\ \A i \in 1..Len(a) : a[i] = b[i]

\* C4: is_for_this_bot is true for an absent explicit username; for a present
\* one it is true iff a username is configured and equals it case-sensitively,
\* hence false when the configured username is unset or differs.
C4_IsForThisBot ==
    \A explicit \in ExplicitUsernames :
        is_for_this_bot(explicit) <=>
            \/ explicit = None
            \/ username # None /\ SameString(username[1], explicit[1])

\* With the username b configured, a command for @B went through the gate
\* and was dropped.
C4_Witness ==
    \E t \in Threads :
        /\ pc[t] = "done"
        /\ username = Some(<<"b">>)
        /\ CommandText(Arrived(t))
        /\ parse_command(Payload(Arrived(t)).text).username = Some(<<"B">>)
        /\ will_handle_unhandled
        /\ log[t] = << >>

\* The category of each payload of a new message, and of each payload an
\* edited message may carry, as the dispatcher's interface names them.
NewCategory ==
    [Poll |-> "poll_handlers", Photo |-> "photo_handlers",
     Pinned |-> "pinned_message_handlers", Sticker |-> "sticker_handlers",
     Venue |-> "venue_handlers", Video |-> "video_handlers",
     VideoNote |-> "video_note_handlers", Voice |-> "voice_handlers",
     Audio |-> "audio_handlers", Animation |-> "animation_handlers",
     ChatPhotoDeleted |-> "deleted_chat_photo_handlers",
     Document |-> "document_handlers", Game |-> "game_handlers",
     LeftChatMember |-> "left_member_handlers",
     Location |-> "location_handlers", MigrateFrom |-> "migration_handlers",
     NewChatPhoto |-> "new_chat_photo_handlers",
     NewChatTitle |-> "new_chat_title_handlers",
     NewChatMembers |-> "new_members_handlers",
     Contact |-> "contact_handlers", GroupCreated |-> "created_group_handlers"]

EditedCategory ==
    [Animation |-> "edited_animation_handlers",
     Audio |-> "edited_audio_handlers",
     Document |-> "edited_document_handlers",
     Location |-> "edited_location_handlers",
     Photo |-> "edited_photo_handlers", Video |-> "edited_video_handlers"]

\* No handler is registered for the category of the update.
CategoryEmpty(kind) ==
    CASE kind.tag \in MessageTags ->
           LET payload == Payload(kind)
           IN  IF payload.tag = "Text"
               THEN IF is_command(payload.text)
                    THEN parse_command(payload.text).command
                            \notin DOMAIN command_handlers
                    ELSE handlers["text_handlers"] = 0
               ELSE payload.tag \in DOMAIN NewCategory =>
                        handlers[NewCategory[payload.tag]] = 0
      [] kind.tag \in EditedTags ->
           LET payload == Payload(kind)
           IN  IF payload.tag = "Text"
               THEN IF is_command(payload.text)
                    THEN parse_command(payload.text).command
                            \notin DOMAIN edited_command_handlers
                    ELSE handlers["edited_text_handlers"] = 0
               ELSE payload.tag \in DOMAIN EditedCategory =>
                        handlers[EditedCategory[payload.tag]] = 0
      [] kind.tag = "Poll" -> handlers["updated_poll_handlers"] = 0
      [] kind.tag = "CallbackQuery" ->
           IF kind.query.kind.tag = "Data"
           THEN handlers["data_callback_handlers"] = 0
           ELSE handlers["game_callback_handlers"] = 0
      [] OTHER -> TRUE

\* The documented drop cases: MigrateTo, a command for another bot, and the
\* protocol anomalies (SupergroupCreated or ChannelCreated delivered live, an
\* edited message without edit_date or with a payload that is not editable).
ProtocolAnomaly(kind) ==
    \/ /\ kind.tag \in MessageTags
       /\ Payload(kind).tag \in { "SupergroupCreated", "ChannelCreated" }
    \/ /\ kind.tag \in EditedTags
       /\ \/ kind.message.data.edit_date = None
          \/ Payload(kind).tag \notin { "Text" } \cup DOMAIN EditedCategory

DropCase(kind) ==
    \/ kind.tag \in MessageTags /\ Payload(kind).tag = "MigrateTo"
    \/ ForAnotherBot(kind)
    \/ ProtocolAnomaly(kind)

FallsThrough(t) ==
    /\ pc[t] = "done"
    /\ ~DropCase(Arrived(t))
    /\ CategoryEmpty(Arrived(t))
    /\ will_handle_unhandled

\* C5: an update whose category has no handler and that is not a drop case
\* gets, when unhandled handlers are registered, each of them called exactly
\* once and no category handler called.
C5_FallbackToUnhandled ==
    \A t \in Threads : FallsThrough(t) =>
        /\ \A h \in RegisteredIn(UnhandledList) : Times(t, h) = 1
        /\ \A i \in Calls(t) :
             log[t][i].h.list \in { BeforeUpdate, AfterUpdate, UnhandledList }

\* An update fell through while another category had a handler.
C5_Witness ==
    \E t \in Threads :
        /\ FallsThrough(t)
        /\ \E l \in HandlerLists \ { BeforeUpdate, AfterUpdate, UnhandledList } :
             handlers[l] > 0

\* C6: the update the unhandled handlers are given has the top-level kind of
\* the update that arrived, for every payload.
C6_UnhandledKeepsKind ==
    \A t \in Threads : InHand(t) =>
        \A i \in Calls(t) : log[t][i].h.list = UnhandledList =>
            Received(t, i).update.tag = Arrived(t).tag

\* C7: the message the unhandled handlers are given is the message that
\* arrived; for a command without a handler its text is the original value
\* with the whole entity list at the original offsets.
C7_UnhandledGetsOriginalMessage ==
    \A t \in Threads : InHand(t) /\ CarriesMessage(Arrived(t)) =>
        \A i \in Calls(t) : log[t][i].h.list = UnhandledList =>
            Received(t, i).update.message = Arrived(t).message

\* A command with text after it, and an entity in that text, reached the
\* unhandled handlers.
C7_Witness ==
    \E t \in Threads :
        /\ InHand(t)
        /\ CommandText(Arrived(t))
        /\ Len(Payload(Arrived(t)).text.entities) > 1
        /\ \E i \in Calls(t) : log[t][i].h.list = UnhandledList

\* C8: a Message or ChannelPost whose payload is MigrateTo gets no category,
\* migration or unhandled handler called.
C8_MigrateToDiscarded ==
    \A t \in Threads :
        /\ InHand(t)
        /\ Arrived(t).tag \in MessageTags
        /\ Payload(Arrived(t)).tag = "MigrateTo"
        => OnlyUpdateLevelCalls(t)

\* A MigrateTo was dispatched to the end with an unhandled handler registered
\* and no migration handler.
C8_Witness ==
    \E t \in Threads :
        /\ pc[t] = "done"
        /\ Arrived(t).tag \in MessageTags
        /\ Payload(Arrived(t)).tag = "MigrateTo"
        /\ will_handle_unhandled
        /\ handlers["migration_handlers"] = 0

\* A configuration call other than username(..) adds exactly one handler and
\* keeps every handler registered before it where it was.
RegistrationAppends ==
    /\ AllRegistered \subseteq AllRegistered'
    /\ calls' = calls + 1 /\ ~(\E name \in Usernames : SetUsername(name)) =>
         Cardinality(AllRegistered') = Cardinality(AllRegistered) + 1

\* The handlers of the list (or command name) h belongs to.
SameList(g, h) == g.list = h.list /\ g.key = h.key

\* The calls into one list are its handlers in registration order, each
\* followed at once by its return, and all of them once the update is done.
InRegistrationOrder ==
    \A t \in Threads : InHand(t) =>
        \A i \in Calls(t) :
            LET h == log[t][i].h
                same == { j \in Calls(t) : SameList(log[t][j].h, h) }
            IN  /\ h.index = Cardinality({ j \in same : j <= i })
                /\ i < Len(log[t]) =>
                     log[t][i + 1] = [ev |-> "return", h |-> h]
                /\ pc[t] = "done" =>
                     Cardinality(same) =
                        Cardinality({ g \in AllRegistered : SameList(g, h) })

\* C9: registering appends to the category's (or command name's) list
\* without replacing or de-duplicating; dispatching a matching update calls
\* every handler of the list exactly once, in registration order, each
\* returning before the next one starts.
C9_AppendAndCallInOrder ==
    [][RegistrationAppends]_vars /\ []InRegistrationOrder

\* Two handlers of one list were both called for an update.
C9_Witness ==
    \E t \in Threads :
        /\ pc[t] = "done"
        /\ \E i \in Calls(t) :
             /\ log[t][i].h.index = 2
             /\ log[t][i].h.list \notin { BeforeUpdate, AfterUpdate }

\* What the dispatcher thread could do next: call the next handler, leave
\* handle_update, or take another update.
DispatcherProceeds(t) ==
    \/ Call(t)
    \/ Finish(t)
    \/ \E u \in Updates : HandleUpdate(t, u)

\* C10 as stated: handle_update does not wait for a handler to finish; while
\* a handler is running the dispatcher can go on.
C10_DoesNotBlock ==
    \A t \in Threads : pc[t] = "in_handler" => ENABLED DispatcherProceeds(t)

\* C10 as the code has it: handle_update calls each handler inline and
\* returns only when every handler it called has returned; while a handler
\* is running the dispatcher waits, so a handler that never returns stalls
\* the updates behind it.
C10_BlocksOnHandlers ==
    \A t \in Threads :
        /\ pc[t] = "in_handler" => ~ENABLED DispatcherProceeds(t)
        /\ pc[t] = "done" =>
             \A i \in Calls(t) :
                ReturnedBefore(t, log[t][i].h, Len(log[t]) + 1)

\* A handler is running while more handlers wait to be called.
C10_Witness ==
    \E t \in Threads :
        /\ pc[t] = "in_handler"
        /\ Called(t) < Len(Running(t).calls)

\* Every handler handle_update had to call for the update was called.
AllPlannedCalled(t) ==
    \A k \in DOMAIN Running(t).calls :
        \E i \in Calls(t) : log[t][i].h = Running(t).calls[k].h

\* C11: a handler that panics does not keep the other handlers of the same
\* update from being called, nor the handlers of later updates, the one that
\* panicked included: when handle_update is over, every handler it had to
\* call for the update has been called.
C11_FailureIsContained ==
    \A t \in Threads : pc[t] = "done" => AllPlannedCalled(t)

\* A command on a new message, for this bot, whose name has a handler.
CommandWithHandler(t) ==
    /\ pc[t] = "done"
    /\ Arrived(t).tag \in MessageTags
    /\ CommandText(Arrived(t))
    /\ ~ForAnotherBot(Arrived(t))
    /\ parse_command(Payload(Arrived(t)).text).command
         \in DOMAIN command_handlers

\* C12: such a command gets exactly the handlers registered under its exact
\* name called, each once (no handler of another name, no text handler, no
\* unhandled handler), and they are given the trimmed text, not the text
\* that arrived.
C12_CommandHandlersGetTrimmedText ==
    \A t \in Threads : CommandWithHandler(t) =>
        LET original == Payload(Arrived(t)).text
            name == parse_command(original).command
        IN  /\ \A n \in 1..command_handlers[name] :
                 Times(t, Handler("command_handlers", Some(name), n)) = 1
            /\ \A i \in Calls(t) :
                 \/ log[t][i].h.list \in { BeforeUpdate, AfterUpdate }
                 \/ /\ log[t][i].h.list = "command_handlers"
                    /\ log[t][i].h.key = Some(name)
                    /\ Received(t, i).payload = trim_command(original).text
                    /\ Received(t, i).payload # original

\* A command with text after it was handled while a handler for a name that
\* differs from it in case only, or a text or unhandled handler, was
\* registered too.
C12_Witness ==
    \E t \in Threads :
        /\ CommandWithHandler(t)
        /\ Len(Payload(Arrived(t)).text.entities) > 1
        /\ \/ DOMAIN command_handlers = CommandNames
           \/ handlers["text_handlers"] > 0
           \/ will_handle_unhandled

\* The text given to the parser, and what the three functions made of it.
Parsed == answer # None

Given == input[1]

Answer == answer[1]

\* The first whitespace-delimited token of the text, for the texts that have
\* one: it starts at the first character that is no whitespace and ends
\* before the next whitespace.
HasToken(value) == \E i \in 1..Len(value) : ~is_whitespace(value[i])

TokenStart(value) ==
    CHOOSE i \in 1..Len(value) :
        /\ ~is_whitespace(value[i])
        /\ \A j \in 1..(i - 1) : is_whitespace(value[j])

TokenEnd(value) ==
    CHOOSE i \in TokenStart(value)..Len(value) :
        /\ \A j \in TokenStart(value)..i : ~is_whitespace(value[j])
        /\ i < Len(value) => is_whitespace(value[i + 1])

Token(value) == SubSeq(value, TokenStart(value), TokenEnd(value))

\* The places of the at signs in a string.
Ats(s) == { i \in 1..Len(s) : s[i] = "@" }

FirstAt(s) == CHOOSE i \in Ats(s) : \A j \in Ats(s) : i <= j

\* C13: parse_command takes the first whitespace-delimited token, strips the
\* leading slash and splits the rest once on the at sign: the command is the
\* part before the first at sign, the username the whole part after it, and
\* absent when there is no at sign.
C13_ParseSplitsOnce ==
    Parsed /\ HasToken(Given.value) /\ Head(Token(Given.value)) = "/" =>
        LET rest == Tail(Token(Given.value))
        IN  /\ Answer.parsed.ok
            /\ IF Ats(rest) = {}
               THEN /\ Answer.parsed.command = rest
                    /\ Answer.parsed.username = None
               ELSE /\ Answer.parsed.command =
                         SubSeq(rest, 1, FirstAt(rest) - 1)
                    /\ Answer.parsed.username =
                         Some(SubSeq(rest, FirstAt(rest) + 1, Len(rest)))

\* C13 for the tokens with at most one at sign, which is where the code
\* agrees.
C13_ParseOneAt ==
    /\ Parsed
    /\ HasToken(Given.value)
    /\ Head(Token(Given.value)) = "/"
    /\ Cardinality(Ats(Tail(Token(Given.value)))) <= 1
    => C13_ParseSplitsOnce

\* C14: is_command is true iff the entity list is not empty and its first
\* entity is a BotCommand at offset 0; a text without entities, or whose
\* BotCommand entity is not the first or not at offset 0, is no command.
C14_IsCommandIffFirstEntity ==
    Parsed =>
        /\ Answer.is_command <=>
              /\ Len(Given.entities) >= 1
              /\ Head(Given.entities).kind = "BotCommand"
              /\ Head(Given.entities).offset = 0
        /\ Given.entities = << >> => ~Answer.is_command

\* is_command was applied to a text whose command entity at offset 0 is not
\* the first of the list.
C14_Witness ==
    /\ Parsed
    /\ Len(Given.entities) = 2
    /\ Given.entities[1].kind = "Bold"
    /\ Given.entities[2] = MessageEntity("BotCommand", 0, 1)
    /\ ~Answer.is_command

\* The characters an entity covers in a value, when it lies inside it.
Inside(value, entity) ==
    entity.offset >= 0 /\ entity.offset + entity.length <= Len(value)

Covered(value, entity) ==
    SubSeq(value, entity.offset + 1, entity.offset + entity.length)

\* A command text as it is sent: the value starts with the command token,
\* the first entity is the command and covers that token, and the other
\* entities lie inside the value, after the command.
CommandTextAsSent(txt) ==
    /\ is_command(txt)
    /\ HasToken(txt.value)
    /\ TokenStart(txt.value) = 1
    /\ Head(txt.entities).length = Len(Token(txt.value))
    /\ \A i \in 2..Len(txt.entities) :
         /\ Inside(txt.value, txt.entities[i])
         /\ txt.entities[i].offset >= Head(txt.entities).length

\* C15: for every command text, trim_command moves each remaining entity
\* back by exactly the number of characters it removed from the value, and
\* the entity, at its new offset with its length, covers in the trimmed
\* value the characters it covered in the original.
C15_TrimKeepsCoverage ==
    Parsed /\ CommandTextAsSent(Given) =>
        LET trimmed == Answer.trimmed
            removed == Len(Given.value) - Len(trimmed.text.value)
            rest == Tail(Given.entities)
        IN  /\ trimmed.ok
            /\ Len(trimmed.text.entities) = Len(rest)
            /\ \A i \in 1..Len(rest) :
                 LET moved == trimmed.text.entities[i]
                 IN  /\ moved.offset = rest[i].offset - removed
                     /\ moved.length = rest[i].length
                     /\ Inside(trimmed.text.value, moved)
                     /\ Covered(trimmed.text.value, moved)
                          = Covered(Given.value, rest[i])

\* Where the text after the command starts: the first character after the
\* command token that is no whitespace, or the end of the value.
KeptFrom(value) ==
    LET later == { i \in (TokenEnd(value) + 1)..Len(value) :
                     ~is_whitespace(value[i]) }
    IN  IF later = {}
        THEN Len(value) + 1
        ELSE CHOOSE i \in later : \A j \in later : i <= j

\* C16: trim_command removes from the value exactly the command token, the
\* one parse_command read the command and the username from, and the
\* whitespace right after it, and from the entities exactly the first,
\* keeping the others in their order.
C16_TrimRemovesCommandToken ==
    /\ Parsed
    /\ is_command(Given)
    /\ HasToken(Given.value)
    /\ TokenStart(Given.value) = 1
    /\ \A i \in 2..Len(Given.entities) :
         Given.entities[i].offset >= KeptFrom(Given.value) - 1
    => LET trimmed == Answer.trimmed
           rest == Tail(Given.entities)
       IN  /\ trimmed.ok
           /\ trimmed.text.value =
                SubSeq(Given.value, KeptFrom(Given.value), Len(Given.value))
           /\ Len(trimmed.text.entities) = Len(rest)
           /\ \A i \in 1..Len(rest) :
                /\ trimmed.text.entities[i].kind = rest[i].kind
                /\ trimmed.text.entities[i].length = rest[i].length

\* The lists of the edited categories.
EditedLists ==
    { "edited_command_handlers", "edited_text_handlers" }
        \cup { EditedCategory[k] : k \in DOMAIN EditedCategory }

\* The list an edited update with an edit_date is for, and the command name
\* its handlers are under (None for the plain lists).
EditedTarget(kind) ==
    LET payload == Payload(kind)
    IN  IF payload.tag # "Text"
        THEN [list |-> EditedCategory[payload.tag], key |-> None]
        ELSE IF is_command(payload.text)
        THEN [list |-> "edited_command_handlers",
              key |-> Some(parse_command(payload.text).command)]
        ELSE [list |-> "edited_text_handlers", key |-> None]

\* C17: on an EditedMessage or EditedChannelPost only edited categories run:
\* a command the handlers of the edited-command map, other text the
\* edited-text handlers, Photo, Video, Audio, Document, Animation and
\* Location their edited_* handlers; no handler of another category is
\* called for an edited update, and no edited handler for any other update.
C17_EditedUpdatesRunEditedCategories ==
    \A t \in Threads : InHand(t) =>
        /\ \A i \in Calls(t) :
             log[t][i].h.list
                \notin { BeforeUpdate, AfterUpdate, UnhandledList } =>
                /\ Arrived(t).tag \in EditedTags
                      <=> log[t][i].h.list \in EditedLists
                /\ Arrived(t).tag \in EditedTags =>
                      /\ log[t][i].h.list = EditedTarget(Arrived(t)).list
                      /\ log[t][i].h.key = EditedTarget(Arrived(t)).key
        /\ /\ pc[t] = "done"
           /\ Arrived(t).tag \in EditedTags
           /\ Arrived(t).message.data.edit_date # None
           /\ Payload(Arrived(t)).tag \in { "Text" } \cup DOMAIN EditedCategory
           /\ ~ForAnotherBot(Arrived(t))
           => \A h \in AllRegistered :
                 /\ h.list = EditedTarget(Arrived(t)).list
                 /\ h.key = EditedTarget(Arrived(t)).key
                 => Times(t, h) = 1

\* An edited command was dispatched while its name had a handler in both
\* command maps.
C17_Witness ==
    \E t \in Threads :
        /\ pc[t] = "done"
        /\ Arrived(t).tag \in EditedTags
        /\ CommandText(Arrived(t))
        /\ \E i \in Calls(t) : log[t][i].h.list = "edited_command_handlers"
        /\ parse_command(Payload(Arrived(t)).text).command
             \in DOMAIN command_handlers

\* The payloads an edited message is not expected to carry.
NotEditable ==
    (NamedKinds \cup OtherKinds) \ DOMAIN EditedCategory

\* C18: an edited update whose payload is Contact, Game, Invoice, an
\* embedded Poll, Sticker, Venue, VideoNote, Voice or a service message is
\* dropped as a protocol anomaly: it is never given to the unhandled
\* handlers.
C18_EditedAnomalyNotUnhandled ==
    \A t \in Threads :
        /\ InHand(t)
        /\ Arrived(t).tag \in EditedTags
        /\ Payload(Arrived(t)).tag \in NotEditable
        => \A i \in Calls(t) : log[t][i].h.list # UnhandledList

\* C19: an edited update whose message has no edit_date aborts the dispatch
\* before the payload is classified: no edited category handler, no
\* edited-command handler and no unhandled handler is invoked for it.
C19_NoEditDateAborts ==
    \A t \in Threads :
        /\ InHand(t)
        /\ Arrived(t).tag \in EditedTags
        /\ Arrived(t).message.data.edit_date = None
        => /\ OnlyUpdateLevelCalls(t)
           /\ pc[t] = "done" => outcome[t] = "panicked"

C19_Witness ==
    \E t \in Threads :
        /\ pc[t] = "done"
        /\ Arrived(t).tag \in EditedTags
        /\ Arrived(t).message.data.edit_date = None
        /\ ~CategoryEmpty(Arrived(t))
        /\ will_handle_unhandled

\* C20: a new message or channel post whose payload is SupergroupCreated or
\* ChannelCreated is dropped: no category handler and no unhandled handler
\* is invoked for it.
C20_CreatedDropped ==
    \A t \in Threads :
        /\ InHand(t)
        /\ Arrived(t).tag \in MessageTags
        /\ Payload(Arrived(t)).tag \in { "SupergroupCreated", "ChannelCreated" }
        => OnlyUpdateLevelCalls(t)

C20_Witness ==
    \E t \in Threads :
        /\ pc[t] = "done"
        /\ Arrived(t).tag \in MessageTags
        /\ Payload(Arrived(t)).tag \in { "SupergroupCreated", "ChannelCreated" }
        /\ will_handle_unhandled

\* The callback list of a query's kind, and the list of the other kind.
CallbackList(query) ==
    IF query.kind.tag = "Data"
    THEN "data_callback_handlers"
    ELSE "game_callback_handlers"

OtherCallbackList(query) ==
    IF query.kind.tag = "Data"
    THEN "game_callback_handlers"
    ELSE "data_callback_handlers"

\* Once the dispatch of thread t is over, exactly the handlers of list were
\* called for its update, each once, besides the update-level ones.
ExactlyList(t, list) ==
    /\ \A h \in RegisteredIn(list) : Times(t, h) = 1
    /\ \A i \in Calls(t) :
         log[t][i].h.list \in { list, BeforeUpdate, AfterUpdate }

\* C21: a CallbackQuery update of kind Data calls exactly the data-callback
\* handlers when any are registered, one of kind Game exactly the
\* game-callback handlers, and never those of the other kind; with none
\* registered the unhandled handlers, if any, are given the query with its
\* id, sender, origin, chat instance and kind as they arrived; with none of
\* those either, no handler is called.
C21_CallbackQueryRouting ==
    \A t \in Threads :
        InHand(t) /\ Arrived(t).tag = "CallbackQuery" =>
            LET query == Arrived(t).query
            IN  /\ \A i \in Calls(t) :
                     log[t][i].h.list # OtherCallbackList(query)
                /\ pc[t] = "done" =>
                     IF handlers[CallbackList(query)] > 0
                     THEN ExactlyList(t, CallbackList(query))
                     ELSE IF will_handle_unhandled
                     THEN /\ ExactlyList(t, UnhandledList)
                          /\ \A i \in Calls(t) :
                               log[t][i].h.list = UnhandledList =>
                                 Received(t, i).update =
                                    [tag |-> "CallbackQuery", query |-> query]
                     ELSE OnlyUpdateLevelCalls(t)

\* A Data query was dispatched while the lists of both callback kinds had
\* a handler.
C21_Witness ==
    \E t \in Threads :
        /\ pc[t] = "done"
        /\ Arrived(t).tag = "CallbackQuery"
        /\ Arrived(t).query.kind.tag = "Data"
        /\ handlers["data_callback_handlers"] > 0
        /\ handlers["game_callback_handlers"] > 0

\* The top-level kinds that are to have a category of their own, and the
\* category handle_update has an arm for.
DedicatedKinds ==
    { "ChosenInlineResult", "InlineQuery", "PreCheckoutQuery", "Poll",
      "PollAnswer", "ShippingQuery" }

TopLevelCategory == [Poll |-> "updated_poll_handlers"]

\* Once the dispatch of thread t is over: the handlers of list if it has
\* any, else the unhandled handlers if any, else none.
ListElseUnhandled(t, list) ==
    IF handlers[list] > 0
    THEN ExactlyList(t, list)
    ELSE IF will_handle_unhandled
    THEN ExactlyList(t, UnhandledList)
    ELSE OnlyUpdateLevelCalls(t)

\* The part about polls: a top-level Poll update runs exactly the
\* updated-poll handlers, else unhandled, else nothing, and never the
\* handlers for polls embedded in messages; an embedded poll never runs the
\* updated-poll handlers.
C22_PollRouting ==
    \A t \in Threads : InHand(t) =>
        /\ Arrived(t).tag = "Poll" =>
             /\ \A i \in Calls(t) : log[t][i].h.list # "poll_handlers"
             /\ pc[t] = "done" =>
                  ListElseUnhandled(t, TopLevelCategory["Poll"])
        /\ CarriesMessage(Arrived(t)) /\ Payload(Arrived(t)).tag = "Poll" =>
             \A i \in Calls(t) : log[t][i].h.list # "updated_poll_handlers"

\* C22: each of the top-level kinds ChosenInlineResult, InlineQuery,
\* PreCheckoutQuery, Poll, PollAnswer and ShippingQuery has one dedicated
\* category, whose handlers are exactly the ones called when it has any;
\* otherwise the unhandled handlers are called, if any; otherwise the update
\* is discarded.  A top-level Poll never calls the handlers for embedded
\* polls, nor an embedded poll the updated-poll handlers.
C22_TopLevelKindsDedicated ==
    /\ \A k \in DedicatedKinds :
         /\ k \in { u.tag : u \in UpdateKinds }
         /\ k \in DOMAIN TopLevelCategory
    /\ C22_PollRouting

\* The non-text payloads that are to have a category of their own.
DedicatedPayloads ==
    { "Photo", "Video", "Audio", "Document", "Animation", "Voice",
      "VideoNote", "Sticker", "Game", "Poll", "Contact", "Location", "Venue",
      "Invoice", "SuccessfulPayment", "PassportData", "Pinned",
      "NewChatMembers", "LeftChatMember", "NewChatPhoto", "ChatPhotoDeleted",
      "NewChatTitle", "GroupCreated" }

\* The part about the payloads handle_message_update has an arm for: the
\* handlers of the arm's list if it has any, else the unhandled handlers if
\* any, else none.
C23_NamedPayloadRouting ==
    \A t \in Threads :
        /\ pc[t] = "done"
        /\ Arrived(t).tag \in MessageTags
        /\ Payload(Arrived(t)).tag \in DedicatedPayloads \cap DOMAIN NewCategory
        => ListElseUnhandled(t, NewCategory[Payload(Arrived(t)).tag])

\* C23: on a Message or ChannelPost update each non-text payload kind
\* (Photo, ..., Invoice, SuccessfulPayment, PassportData, ..., GroupCreated)
\* has one dedicated category, whose handlers are exactly the ones called
\* when it has any; otherwise the unhandled handlers are called, if any;
\* otherwise the update is discarded.
C23_PayloadKindsDedicated ==
    /\ \A k \in DedicatedPayloads :
         /\ k \in { m.tag : m \in MessageKinds }
         /\ k \in DOMAIN NewCategory
         /\ NewCategory[k] \in HandlerLists
    /\ C23_NamedPayloadRouting

\* C24: an update of kind Unknown is given to every registered unhandled
\* handler exactly once, and with no unhandled handler registered it is
\* discarded: only before-update and after-update handlers are called.
C24_UnknownToUnhandled ==
    \A t \in Threads :
        InHand(t) /\ Arrived(t).tag = "Unknown" =>
            /\ \A i \in Calls(t) :
                 /\ log[t][i].h.list \in
                        { UnhandledList, BeforeUpdate, AfterUpdate }
                 /\ log[t][i].h.list = UnhandledList =>
                        Received(t, i).update = Arrived(t)
            /\ \A h \in RegisteredIn(UnhandledList) : Times(t, h) <= 1
            /\ pc[t] = "done" =>
                 \A h \in RegisteredIn(UnhandledList) : Times(t, h) = 1

\* An Unknown update was dispatched to two unhandled handlers.
C24_Witness ==
    \E t \in Threads :
        /\ pc[t] = "done"
        /\ Arrived(t).tag = "Unknown"
        /\ handlers["unhandled_handlers"] = 2

\* The step is a fetch_username whose getMe failed or brought no username.
FetchFailure(result) ==
    result.tag = "Err" \/ result.me.username = None

FetchFailed ==
    /\ Len(log'[1]) = Len(log[1]) + 1
    /\ log'[1][Len(log'[1])].ev = "fetch_username"
    /\ FetchFailure(log'[1][Len(log'[1])].get_me)

\* C25: fetch_username reports a failure to its caller as a failure value,
\* that is it returns, both when the remote call errors and when the
\* response has no username, and leaves the configured username unchanged.
C25_FetchFailureReturned ==
    [][FetchFailed =>
         /\ log'[1][Len(log'[1])].ended = "returned"
         /\ phase' = "configure"
         /\ username' = username]_vars

\* C25 as the code has it: on either failure fetch_username panics, nothing
\* is returned to the caller, and the configured username is unchanged.
C25_FetchFailurePanics ==
    [][FetchFailed =>
         /\ log'[1][Len(log'[1])].ended = "panicked"
         /\ phase' = "panicked"
         /\ username' = username]_vars

\* A username was configured and a later fetch_username got a response
\* without a username.
C25_Witness ==
    /\ username # None
    /\ \E i \in DOMAIN log[1] :
         /\ log[1][i].ev = "fetch_username"
         /\ log[1][i].get_me.tag = "Ok"
         /\ log[1][i].get_me.me.username = None

\* C26: dispatch never modifies the configuration: once the loop listens,
\* no step of any handle_update call changes a category list, either command
\* map (keys, and the handlers under each key) or the configured username.
C26_DispatchKeepsConfiguration ==
    [][phase = "listen" =>
         /\ handlers' = handlers
         /\ command_handlers' = command_handlers
         /\ edited_command_handlers' = edited_command_handlers
         /\ username' = username]_vars

\* A dispatch that called handlers is over, and the loop listens for the
\* next update, on a loop with a username and a command configured.
C26_Witness ==
    /\ phase = "listen"
    /\ username # None
    /\ DOMAIN command_handlers # {}
    /\ \E t \in Threads : pc[t] = "done" /\ Calls(t) # {}

\* The update is a command for this bot whose name has no handler in the
\* map its router looks it up in.
UnregisteredCommand(kind) ==
    /\ CommandText(kind)
    /\ ~ForAnotherBot(kind)
    /\ parse_command(Payload(kind).text).command \notin
          DOMAIN (IF kind.tag \in MessageTags
                  THEN command_handlers
                  ELSE edited_command_handlers)

\* C27: a text command addressed to this bot whose name has no command
\* handler is never given to the text handlers, even when some are
\* registered: the unhandled handlers get it if there are any, and otherwise
\* no handler does; likewise an edited command never reaches the edited-text
\* handlers.
C27_UnregisteredCommandNotText ==
    \A t \in Threads :
        InHand(t) /\ UnregisteredCommand(Arrived(t)) =>
            /\ \A i \in Calls(t) :
                 log[t][i].h.list \notin
                    { "text_handlers", "edited_text_handlers" }
            /\ /\ pc[t] = "done"
               /\ \/ Arrived(t).tag \in MessageTags
                  \/ Arrived(t).message.data.edit_date # None
               => ExactlyList(t, UnhandledList)

\* Such a command was dispatched on a loop with a text handler and an
\* unhandled handler.
C27_Witness ==
    \E t \in Threads :
        /\ pc[t] = "done"
        /\ Arrived(t).tag \in MessageTags
        /\ UnregisteredCommand(Arrived(t))
        /\ handlers["text_handlers"] > 0
        /\ handlers["unhandled_handlers"] > 0

\* The map given to the deserializer, its result, and whether the map has a
\* field of the given key.
GivenMap == input[1]

Deserialized == answer[1]

Present(key) == \E i \in DOMAIN GivenMap.fields : GivenMap.fields[i] = key

\* C28: deserializing a CallbackQuery whose values are well-formed succeeds
\* exactly when message or inline_message_id, data or game_short_name, id,
\* from and chat_instance are present; the origin is Message when message is
\* present and Inline otherwise, the kind is Data when data is present and
\* Game otherwise; a map with neither origin field, neither kind field, or
\* without id, from or chat_instance is an error, and a value that does not
\* deserialize is an error as well.
C28_CallbackQueryDeserialize ==
    answer # None =>
        /\ Deserialized.tag = "Ok" <=>
             /\ GivenMap.bad = 0
             /\ Present(MESSAGE) \/ Present(INLINE_MESSAGE_ID)
             /\ Present(DATA) \/ Present(GAME_SHORT_NAME)
             /\ Present(ID) /\ Present(FROM) /\ Present(CHAT_INSTANCE)
        /\ Deserialized.tag = "Ok" =>
             /\ Deserialized.value.origin.tag =
                   IF Present(MESSAGE) THEN "Message" ELSE "Inline"
             /\ Deserialized.value.kind.tag =
                   IF Present(DATA) THEN "Data" ELSE "Game"
             /\ Deserialized.value.origin.tag = "Message" =>
                   Deserialized.value.origin.message[1] = MESSAGE
             /\ Deserialized.value.origin.tag = "Inline" =>
                   Deserialized.value.origin.id[1] = INLINE_MESSAGE_ID
             /\ Deserialized.value.kind.tag = "Data" =>
                   Deserialized.value.kind.data[1] = DATA
             /\ Deserialized.value.kind.tag = "Game" =>
                   Deserialized.value.kind.game[1] = GAME_SHORT_NAME

\* A map with every field, both origin fields and both kind fields
\* included, was deserialized.
C28_Witness ==
    /\ answer # None
    /\ Deserialized.tag = "Ok"
    /\ Present(MESSAGE) /\ Present(INLINE_MESSAGE_ID)
    /\ Present(DATA) /\ Present(GAME_SHORT_NAME)

\* C29: for any single update the handlers called, apart from the
\* before-update and after-update ones, all belong to one list: one
\* category, the handlers of one command name, or unhandled; a category or
\* command handler and an unhandled handler are never both called.
C29_OneListPerUpdate ==
    \A t \in Threads : InHand(t) =>
        \A i, j \in Calls(t) :
            /\ log[t][i].h.list \notin { BeforeUpdate, AfterUpdate }
            /\ log[t][j].h.list \notin { BeforeUpdate, AfterUpdate }
            => /\ log[t][i].h.list = log[t][j].h.list
               /\ log[t][i].h.key = log[t][j].h.key

\* The handler of a category was called for an update while an unhandled
\* handler was registered as well.
C29_Witness ==
    \E t \in Threads :
        /\ pc[t] = "done"
        /\ will_handle_unhandled
        /\ \E i \in Calls(t) :
             log[t][i].h.list \notin
                { BeforeUpdate, AfterUpdate, UnhandledList }

\* The entities of a text do not overlap and come by ascending offset.
AscendingEntities(txt) ==
    \A i, j \in 1..Len(txt.entities) :
        i < j => txt.entities[i].offset + txt.entities[i].length
                    <= txt.entities[j].offset

\* The characters trim_command removes from the front of a command text:
\* those of the command entity and the whitespace after them.
Removed(txt) ==
    Len(txt.value)
       - Len(skip_while_whitespace(skip(txt.value, Head(txt.entities).length)))

\* C30: for every text on which is_command is true and whose entities are
\* non-overlapping and offset-ascending, every remaining entity's offset is
\* at least the number of characters trim_command removes, so the unsigned
\* subtraction that re-bases the offset does not underflow.
C30_TrimNeverUnderflows ==
    Parsed /\ Answer.is_command /\ AscendingEntities(Given) =>
        /\ \A i \in 2..Len(Given.entities) :
             Given.entities[i].offset >= Removed(Given)
        /\ Answer.trimmed.ok
        /\ \A i \in 1..Len(Answer.trimmed.text.entities) :
             Answer.trimmed.text.entities[i].offset >= 0

\* C31: for every text on which is_command is true, parse_command and
\* trim_command complete without failing: the entity list is not empty, and
\* the first whitespace-delimited token exists and can have its first
\* character stripped.  It is stated for the command texts as they are
\* sent: the value starts with a slash and the command entity covers the
\* first token.
C31_CommandParsesAndTrims ==
    /\ Parsed
    /\ Answer.is_command
    /\ CommandTextAsSent(Given)
    /\ Head(Given.value) = "/"
    =>
        /\ Given.entities # << >>
        /\ Answer.parsed.ok
        /\ Answer.trimmed.ok

\* The part about parse_command: on a command text as it is sent the first
\* token exists and its first character, the slash, can be stripped.
C31_CommandParses ==
    /\ Parsed
    /\ Answer.is_command
    /\ CommandTextAsSent(Given)
    /\ Head(Given.value) = "/"
    => Given.entities # << >> /\ Answer.parsed.ok

\* Thread t leaves the update it has in hand, or takes the next one.
TakesOrLeaves(t) == update'[t] # update[t]

\* C32: when updates are dispatched one after another, the handlers of
\* different updates never interleave: at the step that leaves update i
\* every handler called for it (before-update, category, command or
\* unhandled, after-update) has returned, and at the step that takes update
\* i+1 no handler is running.
C32_UpdatesDoNotInterleave ==
    [][\A t \in Threads : TakesOrLeaves(t) =>
          /\ held = {}
          /\ \A i \in Calls(t) :
               ReturnedBefore(t, log[t][i].h, Len(log[t]) + 1)]_vars

\* The dispatch of an update that called a before-update handler and a
\* handler of another list is over, and the thread is about to take the
\* next update.
C32_Witness ==
    \E t \in Threads :
        /\ pc[t] = "done"
        /\ outcome[t] = "returned"
        /\ ENABLED Finish(t)
        /\ \E i, j \in Calls(t) :
             /\ log[t][i].h.list = BeforeUpdate
             /\ log[t][j].h.list # BeforeUpdate

\* The handler thread t is inside, and the one it is about to lock.
Inside_handler(t) == Running(t).calls[Called(t)].h

Awaited(t) == Running(t).calls[Called(t) + 1].h

\* C33: when handle_update is called from several threads on the same loop,
\* two invocations of the same registered handler never overlap: a handler
\* is run only by the thread that holds its mutex.
C33_HandlerRunsAlone ==
    /\ \A t \in Threads : pc[t] = "in_handler" => Inside_handler(t) \in held
    /\ \A t1, t2 \in Threads :
         /\ t1 # t2
         /\ pc[t1] = "in_handler"
         /\ pc[t2] = "in_handler"
         => Inside_handler(t1) # Inside_handler(t2)

\* A thread is inside a handler that another thread is about to call.
C33_Witness ==
    \E t1, t2 \in Threads :
        /\ pc[t1] = "in_handler"
        /\ pc[t2] = "dispatch"
        /\ Awaited(t2) = Inside_handler(t1)

\* Thread t is in a handle_update call that has handlers left to call or is
\* inside one.
Dispatching(t) == pc[t] \in { "dispatch", "in_handler" }

\* The mutexes thread t holds: the one of the handler it is inside.
HeldBy(t) == IF pc[t] = "in_handler" THEN { Inside_handler(t) } ELSE {}

\* A thread never waits for a handler's mutex while it holds another one,
\* and every locked mutex belongs to a thread that is inside its handler.
NoHoldAndWait ==
    /\ \A t \in Threads : pc[t] = "dispatch" => HeldBy(t) = {}
    /\ held = UNION { HeldBy(t) : t \in Threads }

\* C34: every handle_update call eventually returns, provided every handler
\* it calls returns, also when several calls run on the same loop at once:
\* no thread waits for a handler's mutex while holding another one, so the
\* calls cannot deadlock.
C34_CallsReturn ==
    /\ []NoHoldAndWait
    /\ \A t \in Threads : Dispatching(t) ~> pc[t] = "done"

\* Both threads are in handle_update, one inside a handler whose mutex the
\* other waits for.
C34_Witness ==
    \E t1, t2 \in Threads :
        /\ t1 # t2
        /\ pc[t1] = "in_handler"
        /\ pc[t2] = "dispatch"
        /\ Called(t2) > 0
        /\ Awaited(t2) \in held

====
